---- MODULE Spec2Model ----
(***************************************************************************)
(* A model of the conservative mark-and-sweep collector of src/gc.cpp.     *)
(*                                                                         *)
(* Memory is measured in units of half a machine word (4 bytes on the      *)
(* 64-bit build): a word is WordSize = 2 units and an ObjectHeader         *)
(* (bool + size_t + pointer, 24 bytes) is HeaderSize = 6 units.  size_t    *)
(* and pointers are unsigned integers modulo SizeMod.                      *)
(*                                                                         *)
(* A block is identified by the address of its header.  heap is the list   *)
(* that starts at heap_start and follows the next links; hdr holds the     *)
(* marked and size fields of the headers; mem holds, for every block, the  *)
(* words that gc_mark_from_region reads when it scans the block.           *)
(***************************************************************************)
EXTENDS Integers, Sequences, FiniteSets, TLC

\* ---------------------------------------------------------------- sizes

WordSize == 2
HeaderSize == 6
SizeMod == 32
NULL == 0

\* Bounds of the model.
MaxSize == 2
StackWords == 1
ArenaSize == 16
OuterWords == 1

ArenaBase == 4 * WordSize
ArenaEnd == ArenaBase + ArenaSize
SIZE_MAX == SizeMod - 1
Addr == 0 .. (SizeMod - 1)

\* The sizes a caller passes to GC_malloc: the small ones, and the largest
\* size_t.
Sizes == (0 .. MaxSize) \cup {SIZE_MAX}

VARIABLES
    heap,       \* the registry: header addresses, from heap_start along next
    hdr,        \* header address -> [marked, size]
    mem,        \* header address -> the words a scan of the block reads
    chunks,     \* the underlying allocator: chunk address -> bytes requested
    stack,      \* the words of the root region, from its lower end
    outer,      \* the words of the frame of GC_init's caller
    pc,         \* where the mutator / GC_malloc is
    req,        \* the size argument of the GC_malloc call in progress
    attempts,   \* outcome of each malloc request of the call (TRUE = success)
    result,     \* the value the call returned
    callstack,  \* the active gc_mark_from_region frames, innermost last
    sp,         \* gc_sweep's position p in the list
    snap,       \* the registry and memory as they were when the cycle began
    scans,      \* header address -> times its data region was scanned
    visits,     \* header address -> times gc_sweep's loop body ran on it
    freed       \* the blocks gc_sweep passed to free(), in order

vars == <<heap, hdr, mem, chunks, stack, outer, pc, req, attempts, result,
          callstack, sp, snap, scans, visits, freed>>

\* ------------------------------------------------------------ helpers

Max(a, b) == IF a >= b THEN a ELSE b

Range(s) == {s[i] : i \in 1 .. Len(s)}

Remove(s, i) == [j \in 1 .. (Len(s) - 1) |-> IF j < i THEN s[j] ELSE s[j + 1]]

Restrict(f, S) == [x \in S |-> f[x]]

Zeros(n) == [i \in 1 .. n |-> NULL]

NoSnap == [heap |-> <<>>, hdr |-> <<>>, mem |-> <<>>, stack |-> <<>>,
           marked |-> {}]

\* ------------------------------------------------------ block geometry

\* header + 1: the address of the data area.
DataStart(p) == p + HeaderSize

\* (char*)obj_start + size, in pointer arithmetic.
ObjEnd(p, size) == (DataStart(p) + size) % SizeMod

\* The number of iterations of gc_mark_from_region's loop on the region
\* [DataStart(p), ObjEnd(p, size)): p advances by a whole word while p < end.
RegionWords(p, size) ==
    IF ObjEnd(p, size) <= DataStart(p) THEN 0
    ELSE (ObjEnd(p, size) - DataStart(p) + WordSize - 1) \div WordSize

\* ------------------------------------------------ underlying allocator

\* The units a chunk requested with n units takes up.  The request is below
\* HeaderSize only when total_size has wrapped around; the allocator's
\* smallest chunk then still holds the header that GC_malloc writes into it
\* (24 usable bytes for any request up to 24 on the 64-bit build).
Reserved(n) == Max(n, HeaderSize)

IsFree(a, n) ==
    /\ a >= ArenaBase
    /\ a + n <= ArenaEnd
    /\ \A c \in DOMAIN chunks :
          \/ a + n <= c
          \/ c + Reserved(chunks[c]) <= a

\* The word-aligned addresses at which a chunk of n units fits.
Fits(n) ==
    {a \in ArenaBase .. (ArenaEnd - 1) :
        /\ (a - ArenaBase) % WordSize = 0
        /\ IsFree(a, Reserved(n))}

\* malloc(n): the address it returns (first fit), as a set of at most one
\* element; it fails, and the set is empty, when the chunk fits nowhere.
malloc(n) == {a \in Fits(n) : \A b \in Fits(n) : a <= b}

\* ------------------------------------------------------------ lookup

\* The lookup with the end of the data region taken as inclusive.
RECURSIVE get_header_InclusiveEnd(_, _, _)
get_header_InclusiveEnd(list, h, ptr) ==
    IF list = <<>> THEN NULL
    ELSE LET p == Head(list)
             obj_start == DataStart(p)
             obj_end == ObjEnd(p, h[p].size)
         IN  IF ptr >= obj_start /\ ptr <= obj_end
             THEN p
             ELSE get_header_InclusiveEnd(Tail(list), h, ptr)

RECURSIVE get_header_from_data_ptr(_, _, _)
get_header_from_data_ptr(list, h, ptr) ==
    IF list = <<>> THEN NULL
    ELSE LET p == Head(list)
             obj_start == DataStart(p)
             obj_end == ObjEnd(p, h[p].size)
         IN  IF ptr >= obj_start /\ ptr < obj_end
             THEN p
             ELSE get_header_from_data_ptr(Tail(list), h, ptr)

\* ------------------------------------------------------------- marking

RECURSIVE gc_mark_object(_, _, _, _), gc_mark_from_region(_, _, _, _)

\* gc_mark_object that takes the mark bit for a toggle: it clears the mark of
\* a block it finds marked.
gc_mark_object_Toggle(list, m, h, ptr) ==
    IF ptr = NULL THEN h
    ELSE LET header == get_header_from_data_ptr(list, h, ptr)
         IN  IF header = NULL THEN h
             ELSE IF h[header].marked
             THEN [h EXCEPT ![header].marked = FALSE]
             ELSE gc_mark_from_region(list, m,
                      [h EXCEPT ![header].marked = TRUE], m[header])

gc_mark_object(list, m, h, ptr) ==
    IF ptr = NULL THEN h
    ELSE LET header == get_header_from_data_ptr(list, h, ptr)
         IN  IF header = NULL \/ h[header].marked
             THEN h
             ELSE gc_mark_from_region(list, m,
                      [h EXCEPT ![header].marked = TRUE], m[header])

gc_mark_from_region(list, m, h, words) ==
    IF words = <<>> THEN h
    ELSE gc_mark_from_region(list, m,
             gc_mark_object(list, m, h, Head(words)), Tail(words))

\* ---------------------------------------------------------------- Init

Init ==
    /\ heap = <<>>
    /\ hdr = <<>>
    /\ mem = <<>>
    /\ chunks = <<>>
    /\ stack = Zeros(StackWords)
    /\ outer = Zeros(OuterWords)
    /\ pc = "idle"
    /\ req = 0
    /\ attempts = <<>>
    /\ result = NULL
    /\ callstack = <<>>
    /\ sp = 0
    /\ snap = NoSnap
    /\ scans = <<>>
    /\ visits = <<>>
    /\ freed = <<>>

\* ------------------------------------------------------------- mutator

\* The values the mutator writes: null, and the references GC_malloc gave it
\* for the blocks of the registry.  A reference stays where it was written
\* when its block is released.
Values == {NULL} \cup {DataStart(p) : p \in Range(heap)}

\* The mutator writes a word of a block.
Store(p, i, v) ==
    /\ pc = "idle"
    /\ p \in Range(heap)
    /\ i \in 1 .. Len(mem[p])
    /\ mem[p][i] # v
    /\ mem' = [mem EXCEPT ![p][i] = v]
    /\ UNCHANGED <<heap, hdr, chunks, stack, outer, pc, req, attempts,
                   result, callstack, sp, snap, scans, visits, freed>>

\* The mutator writes a word of its stack.
StackStore(i, v) ==
    /\ pc = "idle"
    /\ stack[i] # v
    /\ stack' = [stack EXCEPT ![i] = v]
    /\ UNCHANGED <<heap, hdr, mem, chunks, outer, pc, req, attempts,
                   result, callstack, sp, snap, scans, visits, freed>>

\* The caller of GC_init writes a word of its own frame.  GC_init records
\* the address of a local of GC_init's own frame as stack_bottom, and the
\* frame of its caller lies on the far side of that address from every frame
\* entered later.  gc_mark's extent between its own local and stack_bottom
\* holds the words of stack; outer holds the words of the caller's frame
\* beyond stack_bottom, which no scan reads.
OuterStore(i, v) ==
    /\ pc = "idle"
    /\ outer[i] # v
    /\ outer' = [outer EXCEPT ![i] = v]
    /\ UNCHANGED <<heap, hdr, mem, chunks, stack, pc, req, attempts,
                   result, callstack, sp, snap, scans, visits, freed>>

\* ----------------------------------------------------------- GC_malloc

total_size(size) == (HeaderSize + size) % SizeMod

\* The insertion that links the new block at the end of the list.
Insert_AtTail(a, size) ==
    /\ chunks' = [c \in DOMAIN chunks \cup {a} |->
                     IF c = a THEN total_size(size) ELSE chunks[c]]
    /\ hdr' = [p \in DOMAIN hdr \cup {a} |->
                  IF p = a THEN [marked |-> FALSE, size |-> size] ELSE hdr[p]]
    /\ mem' = [p \in DOMAIN mem \cup {a} |->
                  IF p = a THEN Zeros(RegionWords(a, size)) ELSE mem[p]]
    /\ heap' = heap \o <<a>>
    /\ result' = DataStart(a)

\* Lines 56-65: initialise the header at address a, prepend it to the list,
\* return header + 1.
Insert(a, size) ==
    /\ chunks' = [c \in DOMAIN chunks \cup {a} |->
                     IF c = a THEN total_size(size) ELSE chunks[c]]
    /\ hdr' = [p \in DOMAIN hdr \cup {a} |->
                  IF p = a THEN [marked |-> FALSE, size |-> size] ELSE hdr[p]]
    /\ mem' = [p \in DOMAIN mem \cup {a} |->
                  IF p = a THEN Zeros(RegionWords(a, size)) ELSE mem[p]]
    /\ heap' = <<a>> \o heap
    /\ result' = DataStart(a)

\* The words of the region a frame scans.
FrameWords(f) == IF f.blk = NULL THEN stack ELSE mem[f.blk]

\* gc_collect calls gc_mark, which calls gc_mark_from_region on the stack
\* between the current stack position and stack_bottom.
gc_mark ==
    /\ pc' = "marking"
    /\ callstack' = <<[blk |-> NULL, idx |-> 1]>>
    /\ snap' = [heap |-> heap, hdr |-> hdr, mem |-> mem, stack |-> stack,
                marked |-> {}]
    /\ scans' = [p \in Range(heap) |-> 0]
    /\ visits' = [p \in Range(heap) |-> 0]

\* GC_malloc that collects at every call, before its first malloc.
GC_malloc_CollectFirst(size) ==
    /\ pc = "idle"
    /\ req' = size
    /\ attempts' = <<>>
    /\ gc_mark
    /\ UNCHANGED <<heap, hdr, mem, chunks, result>>
    /\ UNCHANGED <<stack, outer, sp, freed>>

\* GC_malloc(size) up to its return when the first malloc succeeds, and up
\* to the start of the root scan of gc_collect when it fails.
GC_malloc(size) ==
    /\ pc = "idle"
    /\ req' = size
    /\ IF malloc(total_size(size)) # {}
       THEN /\ \E a \in malloc(total_size(size)) : Insert(a, size)
            /\ attempts' = <<TRUE>>
            /\ pc' = "ret"
            /\ UNCHANGED <<callstack, snap, scans, visits>>
       ELSE /\ attempts' = <<FALSE>>
            /\ gc_mark
            /\ UNCHANGED <<heap, hdr, mem, chunks, result>>
    /\ UNCHANGED <<stack, outer, sp, freed>>

\* The scan that does not test the mark bit before it scans a block.
ScanStep_NoMarkedTest ==
    /\ pc = "marking"
    /\ LET n == Len(callstack)
           f == callstack[n]
           words == FrameWords(f)
       IN  IF f.idx > Len(words)
           THEN /\ callstack' = SubSeq(callstack, 1, n - 1)
                /\ pc' = IF n = 1 THEN "sweeping" ELSE "marking"
                /\ sp' = IF n = 1 THEN 1 ELSE sp
                /\ snap' = IF n = 1
                           THEN [snap EXCEPT !.marked =
                                    {p \in Range(heap) : hdr[p].marked}]
                           ELSE snap
                /\ UNCHANGED <<hdr, scans>>
           ELSE LET ptr == words[f.idx]
                    header == get_header_from_data_ptr(heap, hdr, ptr)
                    adv == [callstack EXCEPT ![n].idx = f.idx + 1]
                IN  /\ UNCHANGED <<pc, sp, snap>>
                    /\ IF ptr = NULL \/ header = NULL
                       THEN /\ callstack' = adv
                            /\ UNCHANGED <<hdr, scans>>
                       ELSE /\ hdr' = [hdr EXCEPT ![header].marked = TRUE]
                            /\ scans' = [scans EXCEPT ![header] = @ + 1]
                            /\ callstack' =
                                   Append(adv, [blk |-> header, idx |-> 1])
    /\ UNCHANGED <<heap, mem, chunks, stack, outer, req, attempts, result,
                   visits, freed>>

\* The scan that hands over to the sweep at the first return from a block's
\* region, with the scans below it unfinished.
ScanStep_SweepEarly ==
    /\ pc = "marking"
    /\ LET n == Len(callstack)
           f == callstack[n]
           words == FrameWords(f)
       IN  IF f.idx > Len(words)
           THEN /\ callstack' = SubSeq(callstack, 1, n - 1)
                /\ pc' = "sweeping"
                /\ sp' = 1
                /\ snap' = [snap EXCEPT !.marked =
                                {p \in Range(heap) : hdr[p].marked}]
                /\ UNCHANGED <<hdr, scans>>
           ELSE LET ptr == words[f.idx]
                    header == get_header_from_data_ptr(heap, hdr, ptr)
                    adv == [callstack EXCEPT ![n].idx = f.idx + 1]
                IN  /\ UNCHANGED <<pc, sp, snap>>
                    /\ IF ptr = NULL \/ header = NULL \/ hdr[header].marked
                       THEN /\ callstack' = adv
                            /\ UNCHANGED <<hdr, scans>>
                       ELSE /\ hdr' = [hdr EXCEPT ![header].marked = TRUE]
                            /\ scans' = [scans EXCEPT ![header] = @ + 1]
                            /\ callstack' =
                                   Append(adv, [blk |-> header, idx |-> 1])
    /\ UNCHANGED <<heap, mem, chunks, stack, outer, req, attempts, result,
                   visits, freed>>

\* One iteration of the loop of gc_mark_from_region in the innermost frame:
\* gc_mark_object(*p), up to its return or its recursive call; or the exit
\* of the loop, which returns to the frame below or, from the root scan, to
\* gc_collect, which calls gc_sweep.
ScanStep ==
    /\ pc = "marking"
    /\ LET n == Len(callstack)
           f == callstack[n]
           words == FrameWords(f)
       IN  IF f.idx > Len(words)
           THEN /\ callstack' = SubSeq(callstack, 1, n - 1)
                /\ pc' = IF n = 1 THEN "sweeping" ELSE "marking"
                /\ sp' = IF n = 1 THEN 1 ELSE sp
                /\ snap' = IF n = 1
                           THEN [snap EXCEPT !.marked =
                                    {p \in Range(heap) : hdr[p].marked}]
                           ELSE snap
                /\ UNCHANGED <<hdr, scans>>
           ELSE LET ptr == words[f.idx]
                    header == get_header_from_data_ptr(heap, hdr, ptr)
                    adv == [callstack EXCEPT ![n].idx = f.idx + 1]
                IN  /\ UNCHANGED <<pc, sp, snap>>
                    /\ IF ptr = NULL \/ header = NULL \/ hdr[header].marked
                       THEN /\ callstack' = adv
                            /\ UNCHANGED <<hdr, scans>>
                       ELSE /\ hdr' = [hdr EXCEPT ![header].marked = TRUE]
                            /\ scans' = [scans EXCEPT ![header] = @ + 1]
                            /\ callstack' =
                                   Append(adv, [blk |-> header, idx |-> 1])
    /\ UNCHANGED <<heap, mem, chunks, stack, outer, req, attempts, result,
                   visits, freed>>

\* The sweep that unlinks an unmarked block and does not free it.
gc_sweep_NoFree ==
    /\ pc = "sweeping"
    /\ IF sp > Len(heap)
       THEN /\ pc' = "retry"
            /\ UNCHANGED <<heap, hdr, mem, chunks, sp, visits, freed>>
       ELSE LET current == heap[sp]
            IN  /\ visits' = [visits EXCEPT ![current] = @ + 1]
                /\ pc' = pc
                /\ IF hdr[current].marked
                   THEN /\ hdr' = [hdr EXCEPT ![current].marked = FALSE]
                        /\ sp' = sp + 1
                        /\ UNCHANGED <<heap, mem, chunks, freed>>
                   ELSE /\ heap' = Remove(heap, sp)
                        /\ hdr' = Restrict(hdr, DOMAIN hdr \ {current})
                        /\ mem' = Restrict(mem, DOMAIN mem \ {current})
                        /\ sp' = sp
                        /\ UNCHANGED <<chunks, freed>>
    /\ UNCHANGED <<stack, outer, req, attempts, result, callstack, snap,
                   scans>>

\* The sweep that steps over the block after each block it frees.
gc_sweep_SkipAfterFree ==
    /\ pc = "sweeping"
    /\ IF sp > Len(heap)
       THEN /\ pc' = "retry"
            /\ UNCHANGED <<heap, hdr, mem, chunks, sp, visits, freed>>
       ELSE LET current == heap[sp]
            IN  /\ visits' = [visits EXCEPT ![current] = @ + 1]
                /\ pc' = pc
                /\ IF hdr[current].marked
                   THEN /\ hdr' = [hdr EXCEPT ![current].marked = FALSE]
                        /\ sp' = sp + 1
                        /\ UNCHANGED <<heap, mem, chunks, freed>>
                   ELSE /\ heap' = Remove(heap, sp)
                        /\ chunks' = Restrict(chunks, DOMAIN chunks \ {current})
                        /\ hdr' = Restrict(hdr, DOMAIN hdr \ {current})
                        /\ mem' = Restrict(mem, DOMAIN mem \ {current})
                        /\ freed' = Append(freed, current)
                        /\ sp' = sp + 1
    /\ UNCHANGED <<stack, outer, req, attempts, result, callstack, snap,
                   scans>>

\* The sweep that leaves the mark bit of a surviving block set.
gc_sweep_KeepMark ==
    /\ pc = "sweeping"
    /\ IF sp > Len(heap)
       THEN /\ pc' = "retry"
            /\ UNCHANGED <<heap, hdr, mem, chunks, sp, visits, freed>>
       ELSE LET current == heap[sp]
            IN  /\ visits' = [visits EXCEPT ![current] = @ + 1]
                /\ pc' = pc
                /\ IF hdr[current].marked
                   THEN /\ sp' = sp + 1
                        /\ UNCHANGED <<heap, hdr, mem, chunks, freed>>
                   ELSE /\ heap' = Remove(heap, sp)
                        /\ chunks' = Restrict(chunks, DOMAIN chunks \ {current})
                        /\ hdr' = Restrict(hdr, DOMAIN hdr \ {current})
                        /\ mem' = Restrict(mem, DOMAIN mem \ {current})
                        /\ freed' = Append(freed, current)
                        /\ sp' = sp
    /\ UNCHANGED <<stack, outer, req, attempts, result, callstack, snap,
                   scans>>

\* The sweep that frees an unmarked block and leaves it in the list.
gc_sweep_NoUnlink ==
    /\ pc = "sweeping"
    /\ IF sp > Len(heap)
       THEN /\ pc' = "retry"
            /\ UNCHANGED <<heap, hdr, mem, chunks, sp, visits, freed>>
       ELSE LET current == heap[sp]
            IN  /\ visits' = [visits EXCEPT ![current] = @ + 1]
                /\ pc' = pc
                /\ sp' = sp + 1
                /\ IF hdr[current].marked
                   THEN /\ hdr' = [hdr EXCEPT ![current].marked = FALSE]
                        /\ UNCHANGED <<heap, mem, chunks, freed>>
                   ELSE /\ chunks' = Restrict(chunks, DOMAIN chunks \ {current})
                        /\ freed' = Append(freed, current)
                        /\ UNCHANGED <<heap, hdr, mem>>
    /\ UNCHANGED <<stack, outer, req, attempts, result, callstack, snap,
                   scans>>

\* One iteration of gc_sweep's loop, or its exit.
gc_sweep ==
    /\ pc = "sweeping"
    /\ IF sp > Len(heap)
       THEN /\ pc' = "retry"
            /\ UNCHANGED <<heap, hdr, mem, chunks, sp, visits, freed>>
       ELSE LET current == heap[sp]
            IN  /\ visits' = [visits EXCEPT ![current] = @ + 1]
                /\ pc' = pc
                /\ IF hdr[current].marked
                   THEN /\ hdr' = [hdr EXCEPT ![current].marked = FALSE]
                        /\ sp' = sp + 1
                        /\ UNCHANGED <<heap, mem, chunks, freed>>
                   ELSE /\ heap' = Remove(heap, sp)
                        /\ chunks' = Restrict(chunks, DOMAIN chunks \ {current})
                        /\ hdr' = Restrict(hdr, DOMAIN hdr \ {current})
                        /\ mem' = Restrict(mem, DOMAIN mem \ {current})
                        /\ freed' = Append(freed, current)
                        /\ sp' = sp
    /\ UNCHANGED <<stack, outer, req, attempts, result, callstack, snap,
                   scans>>

\* GC_malloc that gives up after the collection without a second malloc.
Retry_GiveUp ==
    /\ pc = "retry"
    /\ pc' = "ret"
    /\ result' = NULL
    /\ UNCHANGED <<heap, hdr, mem, chunks, attempts>>
    /\ UNCHANGED <<stack, outer, req, callstack, sp, snap, scans, visits,
                   freed>>

\* Lines 48-65: the second malloc, after the collection.
Retry ==
    /\ pc = "retry"
    /\ pc' = "ret"
    /\ IF malloc(total_size(req)) # {}
       THEN /\ \E a \in malloc(total_size(req)) : Insert(a, req)
            /\ attempts' = Append(attempts, TRUE)
       ELSE /\ attempts' = Append(attempts, FALSE)
            /\ result' = NULL
            /\ UNCHANGED <<heap, hdr, mem, chunks>>
    /\ UNCHANGED <<stack, outer, req, callstack, sp, snap, scans, visits,
                   freed>>

\* The caller goes on after GC_malloc has returned.
Resume ==
    /\ pc = "ret"
    /\ pc' = "idle"
    /\ req' = 0
    /\ attempts' = <<>>
    /\ result' = NULL
    /\ sp' = 0
    /\ snap' = NoSnap
    /\ scans' = <<>>
    /\ visits' = <<>>
    /\ freed' = <<>>
    /\ UNCHANGED <<heap, hdr, mem, chunks, stack, outer, callstack>>

Next ==
    \/ \E size \in Sizes : GC_malloc(size)
    \/ \E p \in Range(heap) : \E i \in 1 .. Len(mem[p]) : \E v \in Values :
          Store(p, i, v)
    \/ \E i \in 1 .. StackWords : \E v \in Values : StackStore(i, v)
    \/ ScanStep
    \/ gc_sweep
    \/ Retry
    \/ Resume

Spec == Init /\ [][Next]_vars

\* The collector runs in the calling thread with no suspension: a step of
\* GC_malloc that can be taken is taken.
Collect == ScanStep \/ gc_sweep \/ Retry \/ Resume

FairSpec == Spec /\ WF_vars(Collect)

\* The collector with the frame of GC_init's caller in view.  No step of the
\* collector reads outer, so Spec leaves its contents out.
RootNext ==
    \/ Next
    \/ \E i \in 1 .. OuterWords : \E v \in Values : OuterStore(i, v)

RootSpec == Init /\ [][RootNext]_vars

\* ------------------------------------------------------- reachability

\* Address a lies in the data region [data_start, data_start + size) of
\* block p of registry state s, in unbounded integer arithmetic.
InData(s, p, a) ==
    /\ DataStart(p) <= a
    /\ a < DataStart(p) + s.hdr[p].size

\* The words of block p that lie wholly inside its data region.
WholeWords(s, p) ==
    {i \in 1 .. Len(s.mem[p]) : i * WordSize <= s.hdr[p].size}

\* The words of block p that a scan of p reads: the whole words, and the
\* word that straddles the end of the data region when size is no multiple
\* of the word size.
ReadWords(s, p) == 1 .. Len(s.mem[p])

\* The least set of blocks of s that holds every block a stack word points
\* into and every block that a word W(s, p) of a block p of the set points
\* into.
RECURSIVE ReachFrom(_, _, _)
ReachFrom(s, W(_, _), R) ==
    LET roots == Range(s.stack) \cup
                 UNION {{s.mem[p][i] : i \in W(s, p)} : p \in R}
        N == {p \in Range(s.heap) : \E a \in roots : InData(s, p, a)}
    IN  IF N = R THEN R ELSE ReachFrom(s, W, N)

\* The blocks of s transitively reachable from the root region through the
\* words inside the blocks' data regions.
Reachable(s) == ReachFrom(s, WholeWords, {})

\* The same through every word a scan reads.
ScannedReach(s) == ReachFrom(s, ReadWords, {})

\* The registry as it is now.
Now == [heap |-> heap, hdr |-> hdr, mem |-> mem, stack |-> stack]

\* The blocks whose size made size + sizeof(ObjectHeader) wrap around.
Wrapped(s) == {p \in Range(s.heap) : HeaderSize + s.hdr[p].size >= SizeMod}

\* -------------------------------------------------------------- claims

\* C1: when a collection cycle completes, every block that was transitively
\* reachable from the root region is still in the registry, has not been
\* released and has marked = FALSE.
C1_ReachableSurvive ==
    pc = "retry" =>
        \A p \in Reachable(snap) :
            /\ p \in Range(heap)
            /\ p \in DOMAIN chunks
            /\ ~hdr[p].marked

\* What holds of C1 on the code: the same, for the blocks whose size did not
\* make the allocation's byte count wrap around.
C1_ReachableSurviveUnlessWrapped ==
    pc = "retry" =>
        \A p \in Reachable(snap) \ Wrapped(snap) :
            /\ p \in Range(heap)
            /\ p \in DOMAIN chunks
            /\ ~hdr[p].marked

\* C2: when a collection cycle completes, every block that was in the
\* registry at its start and is not transitively reachable from the root
\* region has been unlinked from the registry and released.
C2_UnreachableReleased ==
    pc = "retry" =>
        \A p \in Range(snap.heap) \ Reachable(snap) :
            /\ p \notin Range(heap)
            /\ p \notin DOMAIN chunks

\* C6: every block of the registry was obtained with a request of exactly
\* size + sizeof(ObjectHeader) bytes, so that its data region lies inside
\* the memory obtained for it.
C6_ExactRequest ==
    \A p \in Range(heap) : chunks[p] = HeaderSize + hdr[p].size

\* C7: for every block B of the registry and every offset 0 <= o < B.size,
\* the lookup of B.data_start + o returns B.
C7_Containment ==
    \A p \in Range(heap) : \A o \in 0 .. (hdr[p].size - 1) :
        get_header_from_data_ptr(heap, hdr, (DataStart(p) + o) % SizeMod) = p

\* What holds of C7 on the code: the same, for the blocks whose size did not
\* make the allocation's byte count wrap around.
C7_ContainmentUnlessWrapped ==
    \A p \in Range(heap) \ Wrapped(Now) : \A o \in 0 .. (hdr[p].size - 1) :
        get_header_from_data_ptr(heap, hdr, DataStart(p) + o) = p

\* What holds of C2 on the code: a block survives only if it is reachable
\* through the words the scan reads, the word that straddles the end of a
\* block's data region included.
C2_UnscannedReleased ==
    pc = "retry" =>
        \A p \in Range(snap.heap) \ ScannedReach(snap) :
            /\ p \notin Range(heap)
            /\ p \notin DOMAIN chunks

\* The registry after the sweep of the cycle in progress: the blocks of the
\* cycle's start that were not released, in their order.
Survivors ==
    LET Kept(p) == p \notin Range(freed)
    IN  SelectSeq(snap.heap, Kept)

\* C3: GC_malloc returns null if and only if the first malloc request failed
\* and the one retry after the collection cycle failed too, and then no block
\* was added to the registry.
C3_NullIffBothFail ==
    pc = "ret" =>
        /\ Len(attempts) \in {1, 2}
        /\ result = NULL <=>
              (Len(attempts) = 2 /\ ~attempts[1] /\ ~attempts[2])
        /\ result = NULL => heap = Survivors

C3_Witness ==
    /\ pc = "ret"
    /\ result = NULL
    /\ attempts = <<FALSE, FALSE>>
    /\ heap # <<>>

\* A chunk of n units fits in the memory the allocator has free.
Enough(n) == \E a \in ArenaBase .. (ArenaEnd - 1) :
    /\ (a - ArenaBase) % WordSize = 0
    /\ IsFree(a, n)

\* C4: when the first request has failed and the cycle has left the
\* allocator room for size + sizeof(ObjectHeader) bytes, the retry succeeds
\* and returns the data region of a block of the requested size; and when no
\* block was reachable, the retry succeeds.
C4_RetrySucceeds ==
    [][pc = "retry" =>
          /\ Enough(HeaderSize + req) =>
                /\ result' # NULL
                /\ result' = DataStart(Head(heap'))
                /\ hdr'[Head(heap')].size = req
                /\ chunks'[Head(heap')] = HeaderSize + req
                /\ attempts' = <<FALSE, TRUE>>
          /\ (Reachable(snap) = {} /\ total_size(req) <= ArenaSize) =>
                /\ result' # NULL
                /\ attempts' = <<FALSE, TRUE>>]_vars

C4_Witness ==
    /\ pc = "ret"
    /\ attempts = <<FALSE, TRUE>>
    /\ result # NULL
    /\ freed # <<>>
    /\ req > 0

\* C5: a successful GC_malloc(size) creates exactly one block, unmarked and
\* of the requested size, at the head of the registry, and leaves the blocks
\* that were in the registry behind it, in their order and with their size
\* and marked fields unchanged.
C5_InsertAtHead ==
    [][(pc \in {"idle", "retry"} /\ pc' = "ret" /\ result' # NULL) =>
          /\ Len(heap') = Len(heap) + 1
          /\ Tail(heap') = heap
          /\ Head(heap') \notin Range(heap)
          /\ result' = DataStart(Head(heap'))
          /\ hdr'[Head(heap')] = [marked |-> FALSE, size |-> req']
          /\ \A p \in Range(heap) : hdr'[p] = hdr[p]]_vars

C5_Witness ==
    /\ pc = "ret"
    /\ result # NULL
    /\ Len(heap) >= 2
    /\ result = DataStart(Head(heap))

\* The candidate addresses: null, the largest address, and every address of
\* the allocator's arena and next to it.  Blocks lie in the arena, so every
\* other address is outside every block, as the largest address is.
Candidates ==
    {NULL, SIZE_MAX} \cup ((ArenaBase - 1) .. (ArenaEnd + 1))

\* Address c lies in the data region of no block of the registry.
Outside(c) == \A p \in Range(heap) : ~InData(Now, p, c)

\* C8: a candidate address outside the data region of every block of the
\* registry is owned by no block, and gc_mark_object on it changes no mark
\* bit.
C8_NoFalseContainment ==
    \A c \in Candidates :
        Outside(c) =>
            /\ get_header_from_data_ptr(heap, hdr, c) = NULL
            /\ gc_mark_object(heap, mem, hdr, c) = hdr

\* The mark phase is at a word that holds a non-null address outside every
\* block: a word of a block's header, or the address one past a block's end.
C8_Witness ==
    /\ pc = "marking"
    /\ callstack # <<>>
    /\ LET f == callstack[Len(callstack)]
       IN  /\ f.idx <= Len(FrameWords(f))
           /\ FrameWords(f)[f.idx] # NULL
           /\ Outside(FrameWords(f)[f.idx])
           /\ \E p \in Range(heap) :
                 \/ FrameWords(f)[f.idx] = DataStart(p) + hdr[p].size
                 \/ FrameWords(f)[f.idx] \in p .. (DataStart(p) - 1)

\* C9: gc_mark_object on a candidate, run a second time, changes no mark
\* bit.
C9_MarkIdempotent ==
    \A c \in Candidates :
        LET once == gc_mark_object(heap, mem, hdr, c)
        IN  gc_mark_object(heap, mem, once, c) = once

\* A block that points to itself, and that a first gc_mark_object marks.
C9_Witness ==
    \E p \in Range(heap) :
        /\ DataStart(p) \in Range(mem[p])
        /\ ~hdr[p].marked
        /\ gc_mark_object(heap, mem, hdr, DataStart(p))[p].marked

\* C10: a collection cycle terminates; a block's data region is scanned at
\* most once in a mark phase, and the sweep visits every block of the
\* registry exactly once.
C10_CycleTerminates ==
    /\ (pc = "marking") ~> (pc = "retry")
    /\ [](\A p \in DOMAIN scans : scans[p] <= 1)
    /\ [](pc = "retry" => \A p \in Range(snap.heap) : visits[p] = 1)

\* A cycle has ended in which two blocks that point to each other were both
\* scanned.
C10_Witness ==
    /\ pc = "retry"
    /\ \E p, q \in Range(snap.heap) :
          /\ p # q
          /\ DataStart(q) \in Range(snap.mem[p])
          /\ DataStart(p) \in Range(snap.mem[q])
          /\ scans[p] = 1
          /\ scans[q] = 1

\* C11: a collection cycle starts only inside a GC_malloc whose first malloc
\* failed; a GC_malloc whose first malloc succeeds releases no block; blocks
\* are released only by the sweep of such a call; one GC_malloc starts at
\* most one cycle, at its entry, and calls malloc at most twice.
C11_CycleOnlyAfterFailure ==
    [][/\ (pc # "marking" /\ pc' = "marking") =>
              (pc = "idle" /\ attempts' = <<FALSE>>)
       /\ (pc = "idle" /\ attempts' = <<TRUE>>) =>
              /\ pc' = "ret"
              /\ freed' = <<>>
              /\ \A c \in DOMAIN chunks :
                     c \in DOMAIN chunks' /\ chunks'[c] = chunks[c]
       /\ (DOMAIN chunks \ DOMAIN chunks' # {}) =>
              (pc = "sweeping" /\ attempts = <<FALSE>>)
       /\ (pc' \in {"marking", "sweeping", "retry"}) => attempts' = <<FALSE>>
       /\ Len(attempts') <= 2]_vars

\* A call has run one cycle that released a block, and both mallocs failed.
C11_Witness ==
    /\ pc = "ret"
    /\ Len(attempts) = 2
    /\ ~attempts[2]
    /\ freed # <<>>
    /\ snap.heap # <<>>

\* A step sets the mark bit of a block.
Marks == \E p \in DOMAIN hdr :
    ~hdr[p].marked /\ p \in DOMAIN hdr' /\ hdr'[p].marked

\* A step clears the mark bit of a block or releases a block.
Sweeps ==
    \/ \E p \in DOMAIN hdr :
          hdr[p].marked /\ p \in DOMAIN hdr' /\ ~hdr'[p].marked
    \/ DOMAIN chunks \ DOMAIN chunks' # {}

\* A step inserts a block into the registry.
Inserts == Range(heap') \ Range(heap) # {}

\* C12: in a cycle the mark phase has run to completion, with every scan
\* returned, before the sweep unmarks or releases a block; marks are set in
\* the mark phase only; no block is inserted between the start of the mark
\* phase and the end of the sweep; the GC_malloc that started the cycle
\* inserts its block after the sweep has come to the end of the registry.
C12_MarkThenSweepThenInsert ==
    [][/\ Sweeps => (pc = "sweeping" /\ callstack = <<>>)
       /\ Marks => /\ pc = "marking"
                   /\ freed = <<>>
                   /\ \A p \in DOMAIN visits : visits[p] = 0
       /\ (pc' = "sweeping") => callstack' = <<>>
       /\ (pc \in {"marking", "sweeping"}) =>
              (~Inserts /\ Len(heap') <= Len(heap))
       /\ Inserts =>
              /\ pc \in {"idle", "retry"}
              /\ pc = "retry" =>
                     /\ sp = Len(heap) + 1
                     /\ \A p \in Range(snap.heap) : visits[p] = 1
                     /\ \A p \in Range(heap) : ~hdr[p].marked]_vars

\* The second malloc of a call has inserted a block after a cycle that
\* marked one block and released another.
C12_Witness ==
    /\ pc = "ret"
    /\ attempts = <<FALSE, TRUE>>
    /\ snap.marked # {}
    /\ freed # <<>>
    /\ Head(heap) \notin snap.marked
    /\ Len(heap) = Cardinality(snap.marked) + 1

\* The addresses of the memory of block p: its header and its size units of
\* data.
BlockBytes(p) == {(p + k) % SizeMod : k \in 0 .. (HeaderSize + hdr[p].size - 1)}

\* C13: the memory regions, header and data, of two distinct blocks of the
\* registry are disjoint, and every block of the registry has the size its
\* chunk was requested for.
C13_DisjointBlocks ==
    /\ \A p, q \in Range(heap) :
          p # q => BlockBytes(p) \cap BlockBytes(q) = {}
    /\ \A p \in Range(heap) : chunks[p] = total_size(hdr[p].size)

\* The blocks whose total size did not wrap around are disjoint and lie in
\* their chunks, and every block keeps the size its chunk was requested for.
C13_DisjointUnlessWrapped ==
    /\ \A p, q \in Range(heap) \ Wrapped(Now) :
          p # q => BlockBytes(p) \cap BlockBytes(q) = {}
    /\ \A p \in Range(heap) \ Wrapped(Now) :
          chunks[p] = HeaderSize + hdr[p].size
    /\ \A p \in Range(heap) : chunks[p] = total_size(hdr[p].size)

\* The blocks of s whose returned reference, their data start, is held by a
\* word of the root region.
Rooted(s) == {p \in Range(s.heap) : DataStart(p) \in Range(s.stack)}

\* C14: a block of any size, size 0 included, whose returned reference is
\* held by a word of the root region at the time of a collection is in the
\* registry after that collection.
C14_RootedSurvives ==
    pc = "retry" => Rooted(snap) \subseteq Range(heap)

\* The same for the blocks of size 0 alone.
C14_RootedEmptySurvives ==
    pc = "retry" =>
        \A p \in Rooted(snap) : snap.hdr[p].size = 0 => p \in Range(heap)

\* The same for the blocks of a size above 0 whose total size did not wrap
\* around.
C14_RootedSurvivesPositive ==
    pc = "retry" =>
        \A p \in Rooted(snap) \ Wrapped(snap) :
            snap.hdr[p].size > 0 => p \in Range(heap)

\* gc_mark has returned and gc_sweep has not visited a block yet.
MarkReturned ==
    /\ pc = "sweeping"
    /\ \A p \in DOMAIN visits : visits[p] = 0

\* The blocks of the registry whose mark bit is set.
MarkedNow == {p \in Range(heap) : hdr[p].marked}

\* C15: when gc_mark has returned and before gc_sweep starts, the marked
\* blocks are exactly the blocks of the registry transitively reachable from
\* the words of the root region: no reachable block is unmarked and no
\* unreachable block is marked.
C15_MarkedIsReachable ==
    MarkReturned => MarkedNow = Reachable(snap)

\* No reachable block is unmarked.
C15_ReachableMarked ==
    MarkReturned => Reachable(snap) \subseteq MarkedNow

\* No unreachable block is marked.
C15_MarkedReachable ==
    MarkReturned => MarkedNow \subseteq Reachable(snap)

\* What holds of C15 on the code: the marked blocks are the blocks the
\* recursive mark of the root region's words marks; they hold every reachable
\* block whose total size did not wrap around, and only blocks reachable
\* through the words the scan reads.
C15_MarkedBetween ==
    MarkReturned =>
        /\ MarkedNow = snap.marked
        /\ MarkedNow = {p \in Range(snap.heap) :
               gc_mark_from_region(snap.heap, snap.mem, snap.hdr,
                                   snap.stack)[p].marked}
        /\ Reachable(snap) \ Wrapped(snap) \subseteq MarkedNow
        /\ MarkedNow \subseteq ScannedReach(snap)

\* The subsequence of list of the blocks in keep, and of the others.
Kept(list, keep) == LET Test(p) == p \in keep IN SelectSeq(list, Test)

Dropped(list, keep) == LET Test(p) == p \notin keep IN SelectSeq(list, Test)

\* C16: gc_sweep turns the registry into the subsequence of its blocks that
\* were marked, in the same order, with their sizes and contents unchanged
\* and their mark bits cleared; every unmarked block, at the head, at the
\* tail or in a run of unmarked blocks, is released exactly once.
C16_SweepKeepsMarked ==
    pc = "retry" =>
        /\ heap = Kept(snap.heap, snap.marked)
        /\ \A p \in Range(heap) :
              /\ hdr[p] = [marked |-> FALSE, size |-> snap.hdr[p].size]
              /\ mem[p] = snap.mem[p]
        /\ freed = Dropped(snap.heap, snap.marked)
        /\ DOMAIN chunks = Range(heap)
        /\ DOMAIN hdr = Range(heap)

\* A sweep has released a run of two unmarked blocks, the head and the tail
\* of the registry.
C16_Witness ==
    /\ pc = "retry"
    /\ Len(snap.heap) = 2
    /\ freed = snap.heap
    /\ heap = <<>>

\* C17: the root region gc_mark scans holds the locals of the function that
\* called GC_init: a block whose returned reference is held by a word of
\* that frame at the time of a collection is in the registry after it.  The
\* blocks are those the lookup finds from their data start: of a size above
\* 0, with a total size that did not wrap around.
C17_CallerFrameScanned ==
    pc = "retry" =>
        \A p \in Range(snap.heap) \ Wrapped(snap) :
            (snap.hdr[p].size > 0 /\ DataStart(p) \in Range(outer)) =>
                p \in Range(heap)

\* C18: outside a collection cycle, before and after every GC_malloc, every
\* block of the registry has marked = FALSE; a mark bit is set only between
\* the start of the mark phase and the visit of the sweep to its block.
C18_MarksOnlyInCycle ==
    /\ pc \in {"idle", "retry", "ret"} =>
           \A p \in Range(heap) : ~hdr[p].marked
    /\ pc = "sweeping" =>
           \A i \in 1 .. Len(heap) :
               hdr[heap[i]].marked => (i >= sp /\ visits[heap[i]] = 0)

\* The sweep has visited and unmarked the first of two marked blocks and has
\* not come to the second.
C18_Witness ==
    /\ pc = "sweeping"
    /\ Len(heap) = 2
    /\ sp = 2
    /\ heap[1] \in snap.marked
    /\ ~hdr[heap[1]].marked
    /\ hdr[heap[2]].marked

\* Sequence list holds no element twice.
NoDuplicates(list) ==
    \A i, j \in 1 .. Len(list) : list[i] = list[j] => i = j

\* C19: the registry is a list without duplicates that holds exactly the
\* chunks obtained from the allocator and not released; in a cycle no block
\* is released twice, no released block is in the registry, and every block
\* of the registry at the start of the cycle is either in the registry or
\* released, never both and never neither.
C19_RegistryOrReleased ==
    /\ NoDuplicates(heap)
    /\ Range(heap) = DOMAIN chunks
    /\ NoDuplicates(freed)
    /\ pc \in {"sweeping", "retry"} =>
           /\ Range(freed) \cap Range(heap) = {}
           /\ Range(freed) \cup Range(heap) = Range(snap.heap)
           /\ Len(freed) + Len(heap) = Len(snap.heap)
    /\ pc = "marking" => (heap = snap.heap /\ freed = <<>>)

\* A sweep has come to its end with one block released and one block kept.
C19_Witness ==
    /\ pc = "retry"
    /\ Len(freed) = 1
    /\ Len(heap) = 1

\* The scans of blocks' data regions that are about to read a word.
Reading ==
    {k \in 1 .. Len(callstack) :
        /\ callstack[k].blk # NULL
        /\ callstack[k].idx <= Len(mem[callstack[k].blk])}

\* C20: in the mark phase the scan of a block's contents reads only words
\* that lie wholly inside [data_start, data_start + size), whatever the
\* size: the word it reads ends at or before the end of the region.
C20_ReadsInsideBlock ==
    pc = "marking" =>
        \A k \in Reading :
            callstack[k].idx * WordSize <= hdr[callstack[k].blk].size

\* What holds of C20 on the code: the same, for the blocks whose size is a
\* multiple of the word size.
C20_ReadsInsideWordMultiple ==
    pc = "marking" =>
        \A k \in Reading :
            hdr[callstack[k].blk].size % WordSize = 0 =>
                callstack[k].idx * WordSize <= hdr[callstack[k].blk].size

TypeOK ==
    /\ Range(heap) = DOMAIN hdr
    /\ DOMAIN mem = DOMAIN hdr
    /\ pc \in {"idle", "marking", "sweeping", "retry", "ret"}
    /\ Len(stack) = StackWords
    /\ Len(outer) = OuterWords

====
